---- MODULE Spec2Model ----
(***************************************************************************)
(* A model of the resumable transcription pipeline of                      *)
(* starter_story_analysis: transcribe_videos.py (the orchestrator main,    *)
(* the three retry loops and the poll loop), scripts/run_reconstruct_all.py *)
(* (the reconstruction batch) and scripts/reconstruct_diarization.py (the  *)
(* assembly of the segments).                                              *)
(*                                                                         *)
(* One run of main() is modelled.  The inputs of a run are the configured  *)
(* environment values, the list of URLs, the index document found on disk  *)
(* and the files found on disk; Init draws them from bounded sets.  Every  *)
(* collaborator call (yt-dlp, the HTTP requests) is a nondeterministic     *)
(* outcome.  Steps are cut where main() persists the index or blocks in a  *)
(* collaborator call, so every state is a point at which the process may   *)
(* be terminated.                                                          *)
(*                                                                         *)
(* Record fields that no branch of the code reads (title, duration, url,   *)
(* created_at, transcribed_at) are left out of the records.                *)
(***************************************************************************)
EXTENDS Integers, Sequences, FiniteSets, TLC

\* Python's None, and an absent dictionary key.
NONE == "<none>"
\* vid_key before its first assignment (a local variable of main).
UNBOUND == "<unbound>"

---------------------------------------------------------------------------
(* Bounds of the model *)

\* longest input list (videos_list.json after expansion)
MaxJobs == 2
\* largest retry count (DOWNLOAD_RETRIES, UPLOAD_RETRIES) explored
MaxRetries == 3
\* largest MAX_POLL_TRIES explored
MaxPolls == 3
\* longest list of utterances and of words in a transcript
MaxEntries == 3

---------------------------------------------------------------------------
(* The URLs of the input list and what get_video_id makes of them *)

\* youtube host with a v parameter: the id is "a"
UA == "https://www.youtube.com/watch?v=a"
\* no "youtube" in the URL: the id is the last path segment, "b"
UB == "https://example.com/media/b"
\* youtu.be short link with an empty path: no id, the key is the URL
US == "https://youtu.be/"
\* "[" without "]" in the host: urlparse raises ValueError
UBAD == "https://[youtube.com/watch?v=a"

URLS == {UA, UB, US, UBAD}

\* "youtube" in url or "youtu.be" in url
MentionsYoutube(url) == url \in {UA, US, UBAD}

\* urllib.parse.urlparse(url), with parse_qs(query).get("v", [None])[0]
\* and path.strip("/") already taken
urlparse(url) ==
  CASE url = UA -> [raises |-> FALSE, netloc |-> "www.youtube.com", v |-> "a", path |-> "watch"]
    [] url = UB -> [raises |-> FALSE, netloc |-> "example.com", v |-> NONE, path |-> "media/b"]
    [] url = US -> [raises |-> FALSE, netloc |-> "youtu.be", v |-> NONE, path |-> ""]
    [] OTHER    -> [raises |-> TRUE, netloc |-> "", v |-> NONE, path |-> ""]

NetlocHasYoutube(url) == urlparse(url).netloc = "www.youtube.com"

\* url.rstrip("/\n").split("/")[-1]
LastSegment(url) == IF url = UB THEN "b" ELSE ""

\* get_video_id raises (urlparse is reached and raises)
get_video_id_raises(url) == MentionsYoutube(url) /\ urlparse(url).raises

\* get_video_id(url), for a url on which it does not raise
get_video_id(url) ==
  IF MentionsYoutube(url)
  THEN IF NetlocHasYoutube(url) THEN urlparse(url).v ELSE urlparse(url).path
  ELSE LastSegment(url)

\* `get_video_id(url) or None`: the empty string is falsy
VidOf(url) == IF get_video_id(url) \in {NONE, ""} THEN NONE ELSE get_video_id(url)

\* temp_key = vid_key or url
TempKey(url) == IF VidOf(url) # NONE THEN VidOf(url) ELSE url

\* names a direct child of transcripts/ can have: no "/" in them
IdKeys == {"a", "b"}
\* every key the index can hold
Keys == IdKeys \cup {US, UBAD}

---------------------------------------------------------------------------
(* Paths *)

\* OUT_DIR / f"{vid_name}_raw.json"
RawPath(key) == "transcripts/" \o key \o "_raw.json"
\* transcripts/<key>/ of the per-video layout
DirPath(key) == "transcripts/" \o key
DirRawPath(key) == DirPath(key) \o "/" \o key \o "_raw.json"
DirConvPath(key) == DirPath(key) \o "/" \o key \o "_conversation.json"
\* legacy flat transcript transcripts/<key>.json
FlatPath(key) == "transcripts/" \o key \o ".json"
\* a legacy transcript_file recorded for a URL key lies outside transcripts/
LegacyPath == "legacy/short.json"
\* DOWNLOAD_DIR / f"{vid}.<ext>" with vid = get_video_id(url) or "video"
AudioPath(url) == "downloads/" \o (IF VidOf(url) # NONE THEN VidOf(url) ELSE "video") \o ".mp3"

---------------------------------------------------------------------------
(* Index records *)

\* the empty dict {} (present: the key is in the index)
EmptyDict ==
  [present |-> FALSE, status |-> NONE, audio_file |-> NONE, transcript_file |-> NONE,
   raw |-> NONE, conv |-> NONE, tpath |-> NONE, last_error |-> NONE]

\* index = {}
EmptyIndex == [k \in Keys |-> EmptyDict]

\* d.setdefault(field, value) on the fields of a record
SetDefault(v, new) == IF v = NONE THEN new ELSE v

VARIABLES
  cfg,        \* the configuration read from the environment
  urls,       \* the input list
  disk,       \* the last snapshot written to transcripts/index.json
  readable,   \* whether index.json exists and parses
  files,      \* the paths that exist on disk
  index,      \* main's dictionary `index`
  entry,      \* main's dictionary `entry`
  linked,     \* whether `entry` is the object stored in index[temp_key]
  idx,        \* position of the loop in urls
  processed,  \* main's counter `processed`
  vid_key,    \* main's local `vid_key` (kept from one iteration to the next)
  audio,      \* main's local `audio`
  pc,         \* where the run is
  attempt,    \* the local `attempt` of the loop in progress
  ret,        \* the value returned by the function that just returned
  exc,        \* the exception being propagated, NONE when there is none
  calls,      \* invocations of the operation by the loop in progress
  fails,      \* those of them that failed
  sleeps,     \* the time.sleep arguments of the retry loop in progress
  pollSleeps, \* the time.sleep arguments of the poll loop, as fractions
  disk0,      \* history: the index document when the run started
  files0,     \* history: the files when the run started
  outcome,    \* history: what the run did with each job of the list
  acquired,   \* history: jobs for which download_audio was called
  submitted,  \* history: jobs for which transcribe_with_assemblyai was called
  rpc,        \* where a run of one of the two scripts is, "idle" when none runs
  todo,       \* run_reconstruct_all: the keys `for key, entry` has yet to take
  transcript, \* reconstruct_diarization: the dict `raw` of the transcript read
  segments    \* reconstruct_diarization: the list `segments`

\* the state of the two scripts
recon == <<rpc, todo, transcript, segments>>

\* the state of the orchestrator that the two scripts do not share with it
orchestrator == <<cfg, urls, entry, linked, idx, processed, vid_key, audio, pc, attempt,
                  ret, exc, calls, fails, sleeps, pollSleeps, outcome, acquired, submitted>>

vars == <<cfg, urls, disk, readable, files, index, entry, linked, idx, processed,
          vid_key, audio, pc, attempt, ret, exc, calls, fails, sleeps, pollSleeps,
          disk0, files0, outcome, acquired, submitted, rpc, todo, transcript, segments>>

\* Configuration names of transcribe_videos.py
DOWNLOAD_RETRIES == cfg.DOWNLOAD_RETRIES
UPLOAD_RETRIES == cfg.UPLOAD_RETRIES
RETRY_BACKOFF == cfg.RETRY_BACKOFF
MAX_VIDEOS == cfg.MAX_VIDEOS
POLL_INTERVAL == cfg.POLL_INTERVAL
MAX_POLL_TRIES == cfg.MAX_POLL_TRIES
MAX_BACKOFF == cfg.MAX_BACKOFF
\* BACKOFF_FACTOR is the fraction BACKOFF_NUM / BACKOFF_DEN
BACKOFF_NUM == cfg.BACKOFF_NUM
BACKOFF_DEN == cfg.BACKOFF_DEN

---------------------------------------------------------------------------
(* The inputs of a run *)

\* a record as the orchestrator or an earlier version of it wrote it
Rec(status, audio_file, transcript_file, raw, last_error) ==
  [present |-> TRUE, status |-> status, audio_file |-> audio_file,
   transcript_file |-> transcript_file, raw |-> raw, conv |-> NONE, tpath |-> NONE,
   last_error |-> last_error]

\* a record after scripts/run_reconstruct_all.py moved the raw file into
\* the per-video directory
MovedRec(key, audio_file) ==
  [present |-> TRUE, status |-> "completed", audio_file |-> audio_file,
   transcript_file |-> NONE, raw |-> DirRawPath(key), conv |-> DirConvPath(key),
   tpath |-> DirPath(key), last_error |-> NONE]

One(key, rec) == [EmptyIndex EXCEPT ![key] = rec]

World(d, r, f) == [disk |-> d, readable |-> r, files |-> f]

\* The index document and the files a run can find: what earlier runs of
\* the orchestrator leave behind, with files deleted by hand in some.
Worlds ==
  { \* first run: no index.json, nothing on disk
    World(EmptyIndex, FALSE, {}),
    \* "a" was transcribed: record, raw transcript and audio are there
    World(One("a", Rec("completed", AudioPath(UA), NONE, RawPath("a"), NONE)), TRUE,
          {RawPath("a"), AudioPath(UA)}),
    \* the same, and the raw transcript was deleted
    World(One("a", Rec("completed", AudioPath(UA), NONE, RawPath("a"), NONE)), TRUE,
          {AudioPath(UA)}),
    \* the same, and the audio was deleted too
    World(One("a", Rec("completed", AudioPath(UA), NONE, RawPath("a"), NONE)), TRUE, {}),
    \* transcription of "a" failed in an earlier run, the audio is kept
    World(One("a", Rec("transcript-failed", AudioPath(UA), NONE, NONE, "old error")), TRUE,
          {AudioPath(UA)}),
    \* the download of "a" failed in an earlier run
    World(One("a", Rec("audio-download-failed", NONE, NONE, NONE, "old error")), TRUE, {}),
    \* the run was terminated while downloading "a"
    World(One("a", Rec("downloading", NONE, NONE, NONE, NONE)), TRUE, {}),
    \* the run was terminated while transcribing "a"
    World(One("a", Rec("uploading", AudioPath(UA), NONE, NONE, NONE)), TRUE, {AudioPath(UA)}),
    \* index.json is unreadable, the raw transcript of "a" is on disk
    World(EmptyIndex, FALSE, {RawPath("a"), AudioPath(UA)}),
    \* "a" was moved into its per-video directory and reconstructed
    World(One("a", MovedRec("a", AudioPath(UA))), TRUE,
          {DirPath("a"), DirRawPath("a"), DirConvPath("a"), AudioPath(UA)}),
    \* a legacy flat transcript transcripts/b.json, not in the index
    World(EmptyIndex, TRUE, {FlatPath("b")}),
    \* the job keyed by its URL was transcribed: record, raw transcript, audio
    World(One(US, Rec("completed", AudioPath(US), NONE, RawPath(US), NONE)), TRUE,
          {RawPath(US), AudioPath(US)}),
    \* the job keyed by its URL has a legacy record with transcript_file
    World(One(US, Rec("completed", NONE, LegacyPath, NONE, NONE)), TRUE, {LegacyPath}),
    \* the same, and the legacy transcript was deleted
    World(One(US, Rec("completed", NONE, LegacyPath, NONE, NONE)), TRUE, {}),
    \* transcription of "a" failed in an earlier run, the audio was deleted
    World(One("a", Rec("transcript-failed", AudioPath(UA), NONE, NONE, "old error")), TRUE, {}),
    \* "a" was moved into its per-video directory; a later run over the list
    \* [UA, UBAD] skipped it and its catch-all handler marked it failed
    World(One("a", [MovedRec("a", AudioPath(UA)) EXCEPT !.status = "failed",
                                                        !.last_error = "Invalid IPv6 URL"]),
          TRUE, {DirPath("a"), DirRawPath("a"), DirConvPath("a"), AudioPath(UA)})
  }

\* BACKOFF_FACTOR values: 1/2, 1, 3/2 (the default), 2
Factors == {<<1, 2>>, <<1, 1>>, <<3, 2>>, <<2, 1>>}

Cfg(dl, up, b, cap, i, f, m, polls) ==
  [DOWNLOAD_RETRIES |-> dl, UPLOAD_RETRIES |-> up, RETRY_BACKOFF |-> b, MAX_VIDEOS |-> cap,
   POLL_INTERVAL |-> i, BACKOFF_NUM |-> f[1], BACKOFF_DEN |-> f[2], MAX_BACKOFF |-> m,
   MAX_POLL_TRIES |-> polls]

\* configurations under which every world and list is run
RunConfigs ==
  { Cfg(2, 2, 2, cap, 5, <<3, 2>>, 10, 2) : cap \in {0, 1} }

\* configurations of the retry loops, run on one new job
RetryConfigs ==
  { Cfg(dl, up, b, 0, 5, <<3, 2>>, 10, 1) :
      dl \in 0..MaxRetries, up \in 0..MaxRetries, b \in {1, 2, 3} }

\* configurations of the poll loop, run on one new job
PollConfigs ==
  { Cfg(1, 1, 2, 0, i, f, m, polls) :
      i \in {1, 5}, f \in Factors, m \in {2, 10}, polls \in 0..MaxPolls }

Lists == UNION { [1..n -> URLS] : n \in 1..MaxJobs }

\* raw = {}: a transcript with neither utterances nor words
NoTranscript == [utterances |-> <<>>, words |-> <<>>]

\* no script runs
ReconIdle ==
  /\ rpc = "idle"
  /\ todo = {}
  /\ transcript = NoTranscript
  /\ segments = <<>>

\* the orchestrator between two runs, with the values main starts from
OrchestratorIdle(at) ==
  /\ index = EmptyIndex
  /\ entry = EmptyDict
  /\ linked = FALSE
  /\ idx = 1
  /\ processed = 0
  /\ vid_key = UNBOUND
  /\ audio = NONE
  /\ pc = at
  /\ attempt = 0
  /\ ret = NONE
  /\ exc = NONE
  /\ calls = 0
  /\ fails = 0
  /\ sleeps = <<>>
  /\ pollSleeps = <<>>
  /\ acquired = {}
  /\ submitted = {}

Init ==
  /\ ReconIdle
  /\ \E w \in Worlds, l \in Lists, c \in RunConfigs \cup RetryConfigs \cup PollConfigs :
       /\ c \in RunConfigs \/ (w = World(EmptyIndex, FALSE, {}) /\ l = <<UA>>)
       /\ cfg = c
       /\ urls = l
       /\ disk = w.disk
       /\ readable = w.readable
       /\ files = w.files
       /\ disk0 = w.disk
       /\ files0 = w.files
       /\ outcome = [j \in 1..Len(l) |-> "none"]
  /\ index = EmptyIndex
  /\ entry = EmptyDict
  /\ linked = FALSE
  /\ idx = 1
  /\ processed = 0
  /\ vid_key = UNBOUND
  /\ audio = NONE
  /\ pc = "load"
  /\ attempt = 0
  /\ ret = NONE
  /\ exc = NONE
  /\ calls = 0
  /\ fails = 0
  /\ sleeps = <<>>
  /\ pollSleeps = <<>>
  /\ acquired = {}
  /\ submitted = {}

---------------------------------------------------------------------------
(* main(): loading the index and the scan of transcripts/ *)

\* lines 256-263: json.load, or {} when index.json is missing or unreadable
LoadIndex ==
  /\ pc = "load"
  /\ index' = IF readable THEN disk ELSE EmptyIndex
  /\ pc' = "scan"
  /\ UNCHANGED <<recon, cfg, urls, disk, readable, files, entry, linked, idx, processed, vid_key,
                 audio, attempt, ret, exc, calls, fails, sleeps, pollSleeps, disk0, files0,
                 outcome, acquired, submitted>>

\* lines 271-284: p is the directory transcripts/<key>
ScanDir(e, key, fs) ==
  LET e1 == [e EXCEPT !.tpath = SetDefault(@, DirPath(key))]
      e2 == IF DirRawPath(key) \in fs
            THEN [e1 EXCEPT !.raw = SetDefault(@, DirRawPath(key)),
                            !.conv = IF DirConvPath(key) \in fs
                                     THEN SetDefault(@, DirConvPath(key)) ELSE @,
                            !.status = "completed"]
            ELSE e1
  IN [e2 EXCEPT !.present = TRUE]

\* lines 292-298: p is the flat file transcripts/<key>_raw.json
ScanFlatRaw(e, key) ==
  [e EXCEPT !.raw = SetDefault(@, RawPath(key)),
            !.status = SetDefault(@, "completed"),
            !.present = TRUE]

\* lines 299-304: p is the flat file transcripts/<key>.json
ScanFlat(e, key) ==
  [e EXCEPT !.transcript_file = SetDefault(@, FlatPath(key)),
            !.status = "completed",
            !.present = TRUE]

\* lines 267-304 for the children of transcripts/ named after one key
\* (no world holds both a per-video directory and flat files of one key,
\* so the order of iterdir does not show)
ScanKey(e, key, fs) ==
  LET e1 == IF DirPath(key) \in fs THEN ScanDir(e, key, fs) ELSE e
      e2 == IF RawPath(key) \in fs THEN ScanFlatRaw(e1, key) ELSE e1
      e3 == IF FlatPath(key) \in fs THEN ScanFlat(e2, key) ELSE e2
  IN e3

\* the index after the scan
Scanned(ix, fs) ==
  [k \in Keys |-> IF k \in IdKeys THEN ScanKey(ix[k], k, fs) ELSE ix[k]]

\* lines 265-322: the scan, the persist of its result, reading the list
Reconcile ==
  /\ pc = "scan"
  /\ index' = Scanned(index, files)
  /\ disk' = index'
  /\ readable' = TRUE
  /\ pc' = "loop"
  /\ UNCHANGED <<recon, cfg, urls, files, entry, linked, idx, processed, vid_key, audio,
                 attempt, ret, exc, calls, fails, sleeps, pollSleeps, disk0, files0, outcome,
                 acquired, submitted>>

---------------------------------------------------------------------------
(* main(): the head of the loop over the list, lines 325-370 *)

url == urls[idx]

\* `if MAX_VIDEOS and processed >= MAX_VIDEOS`, line 326
CapHit == MAX_VIDEOS # 0 /\ processed >= MAX_VIDEOS

InLoop == pc = "loop" /\ idx <= Len(urls) /\ ~CapHit

\* a skip that takes the failed statuses for final too
SkipsByFinalStatus(u) ==
  /\ VidOf(u) # NONE
  /\ index[VidOf(u)].present
  /\ index[VidOf(u)].status \in {"completed", "audio-download-failed", "transcript-failed"}

\* line 337: the skip that looks at the status alone
SkipsByStatus(u) ==
  /\ VidOf(u) # NONE
  /\ index[VidOf(u)].present
  /\ index[VidOf(u)].status = "completed"

\* line 343: entry = index.get(temp_key, {})
EntryOf(u) == index[TempKey(u)]

\* line 352: the skip that looks at transcript_file
SkipsByFile(e) ==
  /\ e.status = "completed"
  /\ e.transcript_file # NONE
  /\ e.transcript_file \in files

\* lines 356-360: a completed record whose file is missing is cleared
Cleared(e) ==
  IF e.status = "completed" THEN [e EXCEPT !.status = NONE, !.transcript_file = NONE] ELSE e

\* the recorded path is taken without looking for the file
HasAudioRecorded(e) == e.audio_file # NONE

\* line 364: an audio file is recorded and exists
HasAudio(e) == e.audio_file # NONE /\ e.audio_file \in files

\* a change of `entry` shows in `index` when entry is the stored object
Synced(ix, key, e, isLinked) == IF isLinked THEN [ix EXCEPT ![key] = e] ELSE ix

\* the run gives up after a stage failure
StopsAfterFailure == "done"

\* lines 383 and 413: `continue` after a stage failure: main goes on at
\* the head of the loop
AfterStageFailure == "loop"

\* the loop takes the same entry of the list again
SameJobAgain(at) ==
  /\ idx' = idx
  /\ pc' = at
  /\ entry' = EmptyDict
  /\ linked' = FALSE
  /\ audio' = NONE
  /\ attempt' = 0
  /\ ret' = NONE
  /\ exc' = NONE
  /\ calls' = 0
  /\ fails' = 0
  /\ sleeps' = <<>>
  /\ pollSleeps' = <<>>

\* the locals are dead at the head of the next iteration
NextJob(at) ==
  /\ idx' = idx + 1
  /\ pc' = at
  /\ entry' = EmptyDict
  /\ linked' = FALSE
  /\ audio' = NONE
  /\ attempt' = 0
  /\ ret' = NONE
  /\ exc' = NONE
  /\ calls' = 0
  /\ fails' = 0
  /\ sleeps' = <<>>
  /\ pollSleeps' = <<>>

Mark(what) == outcome' = [outcome EXCEPT ![idx] = what]

\* lines 326-328 and 427-429: the cap is reached, break, final persist
CapReached ==
  /\ pc = "loop"
  /\ idx <= Len(urls)
  /\ CapHit
  /\ disk' = index
  /\ pc' = "done"
  /\ UNCHANGED <<recon, cfg, urls, readable, files, index, entry, linked, idx, processed, vid_key,
                 audio, attempt, ret, exc, calls, fails, sleeps, pollSleeps, disk0, files0,
                 outcome, acquired, submitted>>

\* lines 325 and 427-429: the list is exhausted, final persist
ListExhausted ==
  /\ pc = "loop"
  /\ idx > Len(urls)
  /\ disk' = index
  /\ pc' = "done"
  /\ UNCHANGED <<recon, cfg, urls, readable, files, index, entry, linked, idx, processed, vid_key,
                 audio, attempt, ret, exc, calls, fails, sleeps, pollSleeps, disk0, files0,
                 outcome, acquired, submitted>>

\* a status outside every documented set
UndocumentedStatus == "error"

\* line 420: the status the catch-all handler stores
UnexpectedStatus == "failed"

\* lines 419-422 on the record of key hk
MarkUnexpected(ix, hk, err) ==
  [ix EXCEPT ![hk] = [@ EXCEPT !.status = UnexpectedStatus,
                               !.last_error = SetDefault(@, err),
                               !.present = TRUE]]

\* lines 330 and 415-426: get_video_id raises, the catch-all handler runs
\* with vid_key as the previous iteration left it (an unbound vid_key
\* raises NameError inside the handler, which `except Exception: pass` drops)
GetVideoIdRaises ==
  /\ InLoop
  /\ get_video_id_raises(url)
  /\ index' = IF vid_key = UNBOUND THEN index
              ELSE MarkUnexpected(index, IF vid_key # NONE THEN vid_key ELSE url,
                                  "Invalid IPv6 URL")
  /\ disk' = IF vid_key = UNBOUND THEN disk ELSE index'
  /\ Mark("error")
  /\ NextJob("loop")
  /\ UNCHANGED <<recon, cfg, urls, readable, files, processed, vid_key, disk0, files0,
                 acquired, submitted>>

\* lines 330-339: skipped, the status says completed
SkipByStatus ==
  /\ InLoop
  /\ ~get_video_id_raises(url)
  /\ SkipsByStatus(url)
  /\ vid_key' = VidOf(url)
  /\ Mark("skipped")
  /\ NextJob("loop")
  /\ UNCHANGED <<recon, cfg, urls, disk, readable, files, index, processed, disk0, files0,
                 acquired, submitted>>

\* lines 330-355: skipped, transcript_file exists
SkipByFile ==
  /\ InLoop
  /\ ~get_video_id_raises(url)
  /\ ~SkipsByStatus(url)
  /\ SkipsByFile(EntryOf(url))
  /\ vid_key' = VidOf(url)
  /\ processed' = processed + 1
  /\ Mark("skipped")
  /\ NextJob("loop")
  /\ UNCHANGED <<recon, cfg, urls, disk, readable, files, index, disk0, files0,
                 acquired, submitted>>

\* the job is neither skipped nor raising at the head of the loop
Proceeds ==
  /\ InLoop
  /\ ~get_video_id_raises(url)
  /\ ~SkipsByStatus(url)
  /\ ~SkipsByFile(EntryOf(url))

\* lines 330-371: no usable audio: status downloading, persist, and
\* download_audio is called
StartDownload ==
  /\ Proceeds
  /\ ~HasAudio(EntryOf(url))
  /\ vid_key' = VidOf(url)
  /\ linked' = EntryOf(url).present
  /\ entry' = [Cleared(EntryOf(url)) EXCEPT !.status = "downloading"]
  /\ index' = Synced(index, TempKey(url), entry', linked')
  /\ disk' = index'
  /\ acquired' = acquired \cup {idx}
  /\ pc' = "download"
  /\ attempt' = 0
  /\ calls' = 0
  /\ fails' = 0
  /\ sleeps' = <<>>
  /\ UNCHANGED <<recon, cfg, urls, readable, files, idx, processed, audio, ret, exc, pollSleeps,
                 disk0, files0, outcome, submitted>>

\* lines 330-366 and 387-390: the recorded audio exists and is reused:
\* status uploading, persist, and transcribe_with_assemblyai is called
ReuseAudio ==
  /\ Proceeds
  /\ HasAudio(EntryOf(url))
  /\ vid_key' = VidOf(url)
  /\ linked' = EntryOf(url).present
  /\ audio' = EntryOf(url).audio_file
  /\ entry' = [Cleared(EntryOf(url)) EXCEPT !.status = "uploading"]
  /\ index' = Synced(index, TempKey(url), entry', linked')
  /\ disk' = index'
  /\ submitted' = submitted \cup {idx}
  /\ pc' = "upload"
  /\ attempt' = 0
  /\ calls' = 0
  /\ fails' = 0
  /\ sleeps' = <<>>
  /\ UNCHANGED <<recon, cfg, urls, readable, files, idx, processed, ret, exc, pollSleeps,
                 disk0, files0, outcome, acquired>>

---------------------------------------------------------------------------
(* download_audio, lines 99-116, and main around it, lines 371-383 *)

\* the exponent taken from the attempt number itself
DownloadSleepOffByOne(a) == RETRY_BACKOFF * 2^a

\* line 114: sleep_t = RETRY_BACKOFF * (2 ** (attempt - 1))
DownloadSleep(a) == RETRY_BACKOFF * 2^(a - 1)

\* line 112: if attempt >= DOWNLOAD_RETRIES: raise
DownloadGivesUp(a) == a >= DOWNLOAD_RETRIES

\* the loop entered once more than the attempt count allows
DownloadLoopsInclusive(a) == a <= DOWNLOAD_RETRIES

\* line 100: while attempt < DOWNLOAD_RETRIES
DownloadLoops(a) == a < DOWNLOAD_RETRIES

\* lines 101-108: yt-dlp succeeds and the produced file is found
DownloadAttemptOk ==
  /\ pc = "download"
  /\ DownloadLoops(attempt)
  /\ attempt' = attempt + 1
  /\ calls' = calls + 1
  /\ fails' = fails
  /\ files' = files \cup {AudioPath(url)}
  /\ ret' = AudioPath(url)
  /\ pc' = "download_done"
  /\ UNCHANGED <<recon, cfg, urls, disk, readable, index, entry, linked, idx, processed, vid_key,
                 audio, exc, sleeps, pollSleeps, disk0, files0, outcome, acquired,
                 submitted>>

\* lines 101-116: the attempt fails, attempts remain: sleep and retry
DownloadAttemptRetry ==
  /\ pc = "download"
  /\ DownloadLoops(attempt)
  /\ ~DownloadGivesUp(attempt + 1)
  /\ attempt' = attempt + 1
  /\ calls' = calls + 1
  /\ fails' = fails + 1
  /\ sleeps' = Append(sleeps, DownloadSleep(attempt'))
  /\ UNCHANGED <<recon, cfg, urls, disk, readable, files, index, entry, linked, idx, processed,
                 vid_key, audio, pc, ret, exc, pollSleeps, disk0, files0, outcome,
                 acquired, submitted>>

\* lines 101-113: the attempt fails and was the last: the failure is raised
DownloadAttemptExhausted ==
  /\ pc = "download"
  /\ DownloadLoops(attempt)
  /\ DownloadGivesUp(attempt + 1)
  /\ attempt' = attempt + 1
  /\ calls' = calls + 1
  /\ fails' = fails + 1
  /\ exc' = "download failed"
  /\ pc' = "download_done"
  /\ UNCHANGED <<recon, cfg, urls, disk, readable, files, index, entry, linked, idx, processed,
                 vid_key, audio, ret, sleeps, pollSleeps, disk0, files0, outcome,
                 acquired, submitted>>

\* line 100: the loop condition is false, the function falls off its end
\* and returns None
DownloadLoopSkipped ==
  /\ pc = "download"
  /\ ~DownloadLoops(attempt)
  /\ ret' = NONE
  /\ pc' = "download_done"
  /\ UNCHANGED <<recon, cfg, urls, disk, readable, files, index, entry, linked, idx, processed,
                 vid_key, audio, attempt, exc, calls, fails, sleeps, pollSleeps, disk0, files0,
                 outcome, acquired, submitted>>

\* str(audio), line 372
Str(v) == IF v = NONE THEN "None" ELSE v

\* lines 371-375: download_audio returned: audio_file, status downloaded,
\* persist
DownloadReturned ==
  /\ pc = "download_done"
  /\ exc = NONE
  /\ audio' = ret
  /\ entry' = [entry EXCEPT !.audio_file = Str(ret), !.status = "downloaded"]
  /\ index' = Synced(index, TempKey(url), entry', linked)
  /\ disk' = index'
  /\ pc' = "downloaded"
  /\ ret' = NONE
  /\ attempt' = 0
  /\ calls' = 0
  /\ fails' = 0
  /\ sleeps' = <<>>
  /\ UNCHANGED <<recon, cfg, urls, readable, files, linked, idx, processed, vid_key, exc,
                 pollSleeps, disk0, files0, outcome, acquired, submitted>>

\* lines 376-383: download_audio raised: status audio-download-failed,
\* last_error, the record is stored, persist, continue
DownloadFailed ==
  /\ pc = "download_done"
  /\ exc # NONE
  /\ index' = [index EXCEPT ![TempKey(url)] =
                 [entry EXCEPT !.status = "audio-download-failed",
                               !.last_error = SetDefault(@, exc),
                               !.present = TRUE]]
  /\ disk' = index'
  /\ Mark("audio-download-failed")
  /\ NextJob(AfterStageFailure)
  /\ UNCHANGED <<recon, cfg, urls, readable, files, processed, vid_key, disk0, files0,
                 acquired, submitted>>

---------------------------------------------------------------------------
(* transcribe_with_assemblyai, lines 167-251, and main around it *)

\* lines 386-390: status uploading, persist, transcribe_with_assemblyai
\* is called
StartTranscribe ==
  /\ pc = "downloaded"
  /\ entry' = [entry EXCEPT !.status = "uploading"]
  /\ index' = Synced(index, TempKey(url), entry', linked)
  /\ disk' = index'
  /\ submitted' = submitted \cup {idx}
  /\ pc' = "upload"
  /\ attempt' = 0
  /\ calls' = 0
  /\ fails' = 0
  /\ sleeps' = <<>>
  /\ UNCHANGED <<recon, cfg, urls, readable, files, linked, idx, processed, vid_key, audio, ret,
                 exc, pollSleeps, disk0, files0, outcome, acquired>>

\* line 193: sleep_t = RETRY_BACKOFF * (2 ** (attempt - 1))
UploadSleep(a) == RETRY_BACKOFF * 2^(a - 1)

\* line 191: if attempt >= UPLOAD_RETRIES: raise
UploadGivesUp(a) == a >= UPLOAD_RETRIES

\* line 181: while attempt < UPLOAD_RETRIES
UploadLoops(a) == a < UPLOAD_RETRIES

\* lines 182-188: the upload succeeds; the response may lack upload_url
UploadAttemptOk ==
  /\ pc = "upload"
  /\ UploadLoops(attempt)
  /\ attempt' = attempt + 1
  /\ calls' = calls + 1
  /\ fails' = fails
  /\ \E r \in {"upload_url", NONE} : ret' = r
  /\ pc' = "upload_done"
  /\ UNCHANGED <<recon, cfg, urls, disk, readable, files, index, entry, linked, idx, processed,
                 vid_key, audio, exc, sleeps, pollSleeps, disk0, files0, outcome,
                 acquired, submitted>>

\* lines 182-195: the upload fails, attempts remain: sleep and retry
UploadAttemptRetry ==
  /\ pc = "upload"
  /\ UploadLoops(attempt)
  /\ ~UploadGivesUp(attempt + 1)
  /\ attempt' = attempt + 1
  /\ calls' = calls + 1
  /\ fails' = fails + 1
  /\ sleeps' = Append(sleeps, UploadSleep(attempt'))
  /\ UNCHANGED <<recon, cfg, urls, disk, readable, files, index, entry, linked, idx, processed,
                 vid_key, audio, pc, ret, exc, pollSleeps, disk0, files0, outcome,
                 acquired, submitted>>

\* lines 182-192: the upload fails and was the last attempt
UploadAttemptExhausted ==
  /\ pc = "upload"
  /\ UploadLoops(attempt)
  /\ UploadGivesUp(attempt + 1)
  /\ attempt' = attempt + 1
  /\ calls' = calls + 1
  /\ fails' = fails + 1
  /\ exc' = "upload failed"
  /\ pc' = "upload_done"
  /\ UNCHANGED <<recon, cfg, urls, disk, readable, files, index, entry, linked, idx, processed,
                 vid_key, audio, ret, sleeps, pollSleeps, disk0, files0, outcome,
                 acquired, submitted>>

\* line 181: the loop condition is false, _upload_file returns None
UploadLoopSkipped ==
  /\ pc = "upload"
  /\ ~UploadLoops(attempt)
  /\ ret' = NONE
  /\ pc' = "upload_done"
  /\ UNCHANGED <<recon, cfg, urls, disk, readable, files, index, entry, linked, idx, processed,
                 vid_key, audio, attempt, exc, calls, fails, sleeps, pollSleeps, disk0, files0,
                 outcome, acquired, submitted>>

\* lines 240-243: an upload_url came back, _create_transcript is called
UploadReturnedUrl ==
  /\ pc = "upload_done"
  /\ exc = NONE
  /\ ret # NONE
  /\ pc' = "create"
  /\ ret' = NONE
  /\ attempt' = 0
  /\ calls' = 0
  /\ fails' = 0
  /\ sleeps' = <<>>
  /\ UNCHANGED <<recon, cfg, urls, disk, readable, files, index, entry, linked, idx, processed,
                 vid_key, audio, exc, pollSleeps, disk0, files0, outcome, acquired,
                 submitted>>

\* lines 240-242: no upload_url: RuntimeError
UploadReturnedNone ==
  /\ pc = "upload_done"
  /\ exc = NONE
  /\ ret = NONE
  /\ exc' = "Upload failed, no upload_url returned"
  /\ UNCHANGED <<recon, cfg, urls, disk, readable, files, index, entry, linked, idx, processed,
                 vid_key, audio, pc, attempt, ret, calls, fails, sleeps, pollSleeps, disk0,
                 files0, outcome, acquired, submitted>>

\* line 216: sleep_t = RETRY_BACKOFF * (2 ** (attempt - 1))
CreateSleep(a) == RETRY_BACKOFF * 2^(a - 1)

\* line 214: if attempt >= UPLOAD_RETRIES: raise
CreateGivesUp(a) == a >= UPLOAD_RETRIES

\* line 205: while attempt < UPLOAD_RETRIES (true on entry: _upload_file
\* returned a url, so UPLOAD_RETRIES >= 1)
CreateLoops(a) == a < UPLOAD_RETRIES

\* lines 206-211: the transcript is created, its id returned
CreateAttemptOk ==
  /\ pc = "create"
  /\ CreateLoops(attempt)
  /\ attempt' = attempt + 1
  /\ calls' = calls + 1
  /\ fails' = fails
  /\ ret' = "tid"
  /\ pc' = "create_done"
  /\ UNCHANGED <<recon, cfg, urls, disk, readable, files, index, entry, linked, idx, processed,
                 vid_key, audio, exc, sleeps, pollSleeps, disk0, files0, outcome,
                 acquired, submitted>>

\* lines 206-218: the request fails, attempts remain: sleep and retry
CreateAttemptRetry ==
  /\ pc = "create"
  /\ CreateLoops(attempt)
  /\ ~CreateGivesUp(attempt + 1)
  /\ attempt' = attempt + 1
  /\ calls' = calls + 1
  /\ fails' = fails + 1
  /\ sleeps' = Append(sleeps, CreateSleep(attempt'))
  /\ UNCHANGED <<recon, cfg, urls, disk, readable, files, index, entry, linked, idx, processed,
                 vid_key, audio, pc, ret, exc, pollSleeps, disk0, files0, outcome,
                 acquired, submitted>>

\* lines 206-215: the request fails and was the last attempt
CreateAttemptExhausted ==
  /\ pc = "create"
  /\ CreateLoops(attempt)
  /\ CreateGivesUp(attempt + 1)
  /\ attempt' = attempt + 1
  /\ calls' = calls + 1
  /\ fails' = fails + 1
  /\ exc' = "create transcript failed"
  /\ pc' = "create_done"
  /\ UNCHANGED <<recon, cfg, urls, disk, readable, files, index, entry, linked, idx, processed,
                 vid_key, audio, ret, sleeps, pollSleeps, disk0, files0, outcome,
                 acquired, submitted>>

\* lines 243-244: the id came back, _poll_transcript is called
CreateReturned ==
  /\ pc = "create_done"
  /\ exc = NONE
  /\ pc' = "poll"
  /\ ret' = NONE
  /\ attempt' = 0
  /\ calls' = 0
  /\ fails' = 0
  /\ sleeps' = <<>>
  /\ pollSleeps' = <<>>
  /\ UNCHANGED <<recon, cfg, urls, disk, readable, files, index, entry, linked, idx, processed,
                 vid_key, audio, exc, disk0, files0, outcome, acquired, submitted>>

---------------------------------------------------------------------------
(* _poll_transcript, lines 220-238.  A sleep is a fraction <<n, d>>. *)

\* the delay computed before `attempt += 1`
PollSleepStale(a) ==
  LET n == POLL_INTERVAL * BACKOFF_NUM^(a - 1)
      d == BACKOFF_DEN^(a - 1)
  IN IF n <= MAX_BACKOFF * d THEN <<n, d>> ELSE <<MAX_BACKOFF, 1>>

\* line 235: min(interval * (BACKOFF_FACTOR ** attempt), MAX_BACKOFF)
PollSleep(a) ==
  LET n == POLL_INTERVAL * BACKOFF_NUM^a
      d == BACKOFF_DEN^a
  IN IF n <= MAX_BACKOFF * d THEN <<n, d>> ELSE <<MAX_BACKOFF, 1>>

\* one query more than MAX_POLL_TRIES
PollLoopsInclusive(a) == a <= MAX_POLL_TRIES

\* line 224: while attempt < MAX_POLL_TRIES
PollLoops(a) == a < MAX_POLL_TRIES

\* lines 225-230: the status is completed, the payload is returned
PollCompleted ==
  /\ pc = "poll"
  /\ PollLoops(attempt)
  /\ calls' = calls + 1
  /\ fails' = fails
  /\ ret' = "completed"
  /\ pc' = "poll_done"
  /\ UNCHANGED <<recon, cfg, urls, disk, readable, files, index, entry, linked, idx, processed,
                 vid_key, audio, attempt, exc, sleeps, pollSleeps, disk0, files0,
                 outcome, acquired, submitted>>

\* lines 225-232: the status is failed: RuntimeError("Transcription failed")
PollRemoteFailed ==
  /\ pc = "poll"
  /\ PollLoops(attempt)
  /\ calls' = calls + 1
  /\ fails' = fails
  /\ exc' = "Transcription failed"
  /\ pc' = "poll_done"
  /\ UNCHANGED <<recon, cfg, urls, disk, readable, files, index, entry, linked, idx, processed,
                 vid_key, audio, attempt, ret, sleeps, pollSleeps, disk0, files0,
                 outcome, acquired, submitted>>

\* lines 225-226: the status request itself fails (raise_for_status)
PollRequestFails ==
  /\ pc = "poll"
  /\ PollLoops(attempt)
  /\ calls' = calls + 1
  /\ fails' = fails
  /\ exc' = "HTTP error"
  /\ pc' = "poll_done"
  /\ UNCHANGED <<recon, cfg, urls, disk, readable, files, index, entry, linked, idx, processed,
                 vid_key, audio, attempt, ret, sleeps, pollSleeps, disk0, files0,
                 outcome, acquired, submitted>>

\* lines 225-237: queued or processing: attempt += 1, sleep
PollPending ==
  /\ pc = "poll"
  /\ PollLoops(attempt)
  /\ calls' = calls + 1
  /\ fails' = fails
  /\ attempt' = attempt + 1
  /\ pollSleeps' = Append(pollSleeps, PollSleep(attempt'))
  /\ UNCHANGED <<recon, cfg, urls, disk, readable, files, index, entry, linked, idx, processed,
                 vid_key, audio, pc, ret, exc, sleeps, disk0, files0, outcome, acquired,
                 submitted>>

\* lines 224 and 238: the loop ends: RuntimeError("Max polling attempts")
PollTimeout ==
  /\ pc = "poll"
  /\ ~PollLoops(attempt)
  /\ exc' = "Max polling attempts exceeded"
  /\ pc' = "poll_done"
  /\ UNCHANGED <<recon, cfg, urls, disk, readable, files, index, entry, linked, idx, processed,
                 vid_key, audio, attempt, ret, calls, fails, sleeps, pollSleeps, disk0, files0,
                 outcome, acquired, submitted>>

\* the class of the exception _poll_transcript raises with each message:
\* lines 232 and 238 raise RuntimeError, line 226 (raise_for_status)
\* raises requests.HTTPError
ExcKind(msg) ==
  CASE msg = "Transcription failed" -> "RuntimeError"
    [] msg = "Max polling attempts exceeded" -> "RuntimeError"
    [] msg = "HTTP error" -> "HTTPError"
    [] OTHER -> "Exception"

---------------------------------------------------------------------------
(* main after transcribe_with_assemblyai, lines 390-414 *)

\* line 400: out.get("status") or "completed"; out["status"] is the status
\* of the payload _poll_transcript returned
CompletedStatus(remote) == IF remote # NONE THEN remote ELSE "completed"

\* lines 391-396: the raw transcript is written to transcripts/<key>_raw.json
\* (for a key that is a URL: when the directories its "/" name exist)
WriteRaw ==
  /\ pc = "poll_done"
  /\ exc = NONE
  /\ files' = files \cup {RawPath(TempKey(url))}
  /\ pc' = "raw_written"
  /\ UNCHANGED <<recon, cfg, urls, disk, readable, index, entry, linked, idx, processed, vid_key,
                 audio, attempt, ret, exc, calls, fails, sleeps, pollSleeps, disk0, files0,
                 outcome, acquired, submitted>>

\* lines 391-395: the key is a URL, its "/" make the path one below
\* directories that do not exist: open raises
WriteRawFails ==
  /\ pc = "poll_done"
  /\ exc = NONE
  /\ TempKey(url) \notin IdKeys
  /\ exc' = "No such file or directory"
  /\ UNCHANGED <<recon, cfg, urls, disk, readable, files, index, entry, linked, idx, processed,
                 vid_key, audio, pc, attempt, ret, calls, fails, sleeps, pollSleeps, disk0,
                 files0, outcome, acquired, submitted>>

\* the record completed while the raw file is still to be written
RawFilePending == pc = "poll_done" /\ exc = NONE

\* lines 394-398: the record is touched once the with-block that writes
\* the raw file has been left
RawFileWritten == pc = "raw_written"

\* lines 398-404 and 414: the record is completed and stored, persist,
\* processed += 1
RecordCompleted ==
  /\ RawFileWritten
  /\ index' = [index EXCEPT ![TempKey(url)] =
                 [entry EXCEPT !.raw = RawPath(TempKey(url)),
                               !.status = CompletedStatus(ret),
                               !.present = TRUE]]
  /\ disk' = index'
  /\ processed' = processed + 1
  /\ Mark("completed")
  /\ NextJob("loop")
  /\ UNCHANGED <<recon, cfg, urls, readable, files, vid_key, disk0, files0, acquired, submitted>>

\* lines 405-413: transcribe_with_assemblyai or the write raised: status
\* transcript-failed, last_error, the record is stored, persist, continue
TranscriptFailed ==
  /\ pc \in {"upload_done", "create_done", "poll_done"}
  /\ exc # NONE
  /\ index' = [index EXCEPT ![TempKey(url)] =
                 [entry EXCEPT !.status = "transcript-failed",
                               !.last_error = SetDefault(@, exc),
                               !.present = TRUE]]
  /\ disk' = index'
  /\ Mark("transcript-failed")
  /\ NextJob(AfterStageFailure)
  /\ UNCHANGED <<recon, cfg, urls, readable, files, processed, vid_key, disk0, files0,
                 acquired, submitted>>

---------------------------------------------------------------------------

Next ==
  \/ LoadIndex
  \/ Reconcile
  \/ CapReached
  \/ ListExhausted
  \/ GetVideoIdRaises
  \/ SkipByStatus
  \/ SkipByFile
  \/ StartDownload
  \/ ReuseAudio
  \/ DownloadAttemptOk
  \/ DownloadAttemptRetry
  \/ DownloadAttemptExhausted
  \/ DownloadLoopSkipped
  \/ DownloadReturned
  \/ DownloadFailed
  \/ StartTranscribe
  \/ UploadAttemptOk
  \/ UploadAttemptRetry
  \/ UploadAttemptExhausted
  \/ UploadLoopSkipped
  \/ UploadReturnedUrl
  \/ UploadReturnedNone
  \/ CreateAttemptOk
  \/ CreateAttemptRetry
  \/ CreateAttemptExhausted
  \/ CreateReturned
  \/ PollCompleted
  \/ PollRemoteFailed
  \/ PollRequestFails
  \/ PollPending
  \/ PollTimeout
  \/ WriteRaw
  \/ WriteRawFails
  \/ RecordCompleted
  \/ TranscriptFailed

Spec == Init /\ [][Next]_vars

\* main is one sequential process: while it has a step to take it takes
\* one (every collaborator call returns or raises)
FairSpec == Spec /\ WF_vars(Next)

---------------------------------------------------------------------------
(* scripts/run_reconstruct_all.py: one run of the reconstruction batch,   *)
(* started when no run of the orchestrator is in progress                  *)

\* the URL the orchestrator keys with k
UrlOfKey(k) == IF k = "a" THEN UA ELSE IF k = "b" THEN UB ELSE k

\* what the orchestrator and earlier runs of the batch leave for one key
\* that names a child of transcripts/: the record and the files
KeyStates(k) ==
  LET audio_file == AudioPath(UrlOfKey(k))
      done == Rec("completed", audio_file, NONE, RawPath(k), NONE)
  IN { \* no record
       [rec |-> EmptyDict, files |-> {}],
       \* transcribed: the flat raw transcript is there
       [rec |-> done, files |-> {RawPath(k), audio_file}],
       \* the same, and the raw transcript was deleted
       [rec |-> done, files |-> {audio_file}],
       \* the transcription failed
       [rec |-> Rec("transcript-failed", audio_file, NONE, NONE, "old error"),
        files |-> {audio_file}],
       \* moved into the per-video directory and reconstructed
       [rec |-> MovedRec(k, audio_file),
        files |-> {DirPath(k), DirRawPath(k), DirConvPath(k), audio_file}],
       \* moved, and the reconstruction failed
       [rec |-> MovedRec(k, audio_file), files |-> {DirPath(k), DirRawPath(k), audio_file}],
       \* a legacy flat transcript, put into the index by the scan
       [rec |-> Rec("completed", NONE, FlatPath(k), NONE, NONE), files |-> {FlatPath(k)}] }

\* the same for the key that is a URL
UrlKeyStates ==
  { [rec |-> EmptyDict, files |-> {}],
    [rec |-> Rec("completed", AudioPath(US), NONE, RawPath(US), NONE),
     files |-> {RawPath(US), AudioPath(US)}],
    [rec |-> Rec("completed", NONE, LegacyPath, NONE, NONE), files |-> {LegacyPath}] }

\* the index documents and files a run of the batch can find
ReconWorlds ==
  { World([k \in Keys |-> IF k = "a" THEN a.rec ELSE IF k = "b" THEN b.rec
                          ELSE IF k = US THEN u.rec ELSE EmptyDict],
          TRUE, a.files \cup b.files \cup u.files) :
      a \in KeyStates("a"), b \in KeyStates("b"), u \in UrlKeyStates }
  \cup {World(EmptyIndex, FALSE, {})}

InitRecon ==
  /\ \E w \in ReconWorlds :
       /\ disk = w.disk
       /\ readable = w.readable
       /\ files = w.files
       /\ disk0 = w.disk
       /\ files0 = w.files
  /\ cfg = Cfg(2, 2, 2, 0, 5, <<3, 2>>, 10, 2)
  /\ urls = <<UA>>
  /\ outcome = <<"none">>
  /\ OrchestratorIdle("done")
  /\ rpc = "start"
  /\ todo = {}
  /\ transcript = NoTranscript
  /\ segments = <<>>

\* lines 20-22: index.json does not exist: sys.exit(2)
ReconNoIndex ==
  /\ rpc = "start"
  /\ ~readable
  /\ rpc' = "exit"
  /\ UNCHANGED <<orchestrator, disk, readable, files, index, disk0, files0, todo,
                 transcript, segments>>

\* lines 24-27: json.load, and the loop starts over the items of index
ReconLoad ==
  /\ rpc = "start"
  /\ readable
  /\ index' = disk
  /\ todo' = {k \in Keys : disk[k].present}
  /\ rpc' = "loop"
  /\ UNCHANGED <<orchestrator, disk, readable, files, disk0, files0, transcript, segments>>

\* raw_file.with_name(f"{raw_file.stem}_conversation.json"), lines 36, 61
ConvBeside(p) ==
  IF \E k \in Keys : p = RawPath(k)
  THEN "transcripts/" \o (CHOOSE k \in Keys : p = RawPath(k)) \o "_raw_conversation.json"
  ELSE IF \E k \in IdKeys : p = FlatPath(k)
  THEN "transcripts/" \o (CHOOSE k \in IdKeys : p = FlatPath(k)) \o "_conversation.json"
  ELSE IF \E k \in IdKeys : p = DirRawPath(k)
  THEN DirPath(CHOOSE k \in IdKeys : p = DirRawPath(k)) \o "/"
         \o (CHOOSE k \in IdKeys : p = DirRawPath(k)) \o "_raw_conversation.json"
  ELSE "legacy/short_conversation.json"

\* line 39 after raw_file.exists(), and line 41: the file lies directly
\* under transcripts/, is named <stem>_raw.json, and <stem> is the key
Movable(key, p) == key \in IdKeys /\ p = RawPath(key)

\* lines 66-78: the files after the last part of an iteration:
\* reconstruct_diarization.py is run when the raw file exists and the
\* conversation file does not; ok says whether it wrote its output
Reconstructed(raw_file, conv_file, fs, ok) ==
  IF raw_file \in fs /\ conv_file \notin fs /\ ok THEN fs \cup {conv_file} ELSE fs

\* the loop goes on with the next item
ReconNextItem(key) ==
  /\ todo' = todo \ {key}
  /\ rpc' = "loop"
  /\ UNCHANGED <<orchestrator, readable, disk0, files0, transcript, segments>>

\* lines 30-33 and 66-78: the entry has transcript_path
ReconByPath ==
  /\ rpc = "loop"
  /\ \E key \in todo, ok \in BOOLEAN :
       /\ index[key].tpath # NONE
       /\ files' = Reconstructed(DirRawPath(key), DirConvPath(key), files, ok)
       /\ ReconNextItem(key)
  /\ UNCHANGED <<index, disk>>

\* lines 34-56 and 66-78: the raw file is a flat transcripts/<key>_raw.json:
\* it is moved into transcripts/<key>/, the entry is pointed at the new
\* directory and the index is written
ReconMove ==
  /\ rpc = "loop"
  /\ \E key \in todo, ok \in BOOLEAN :
       /\ index[key].tpath = NONE
       /\ index[key].raw # NONE
       /\ index[key].raw \in files
       /\ Movable(key, index[key].raw)
       /\ index' = [index EXCEPT ![key] = [@ EXCEPT !.tpath = DirPath(key),
                                                    !.raw = DirRawPath(key),
                                                    !.conv = DirConvPath(key)]]
       /\ disk' = index'
       /\ files' = Reconstructed(DirRawPath(key), DirConvPath(key),
                                 (files \ {RawPath(key)}) \cup {DirPath(key), DirRawPath(key)},
                                 ok)
       /\ ReconNextItem(key)

\* lines 34-46, 57-58 and 66-78: the directory is made and the move raises
\* (raw_file.replace): a warning, and the iteration goes on with the flat
\* file
ReconMoveFails ==
  /\ rpc = "loop"
  /\ \E key \in todo, ok \in BOOLEAN :
       /\ index[key].tpath = NONE
       /\ index[key].raw # NONE
       /\ index[key].raw \in files
       /\ Movable(key, index[key].raw)
       /\ files' = Reconstructed(index[key].raw,
                                 SetDefault(index[key].conv, ConvBeside(index[key].raw)),
                                 files \cup {DirPath(key)}, ok)
       /\ ReconNextItem(key)
  /\ UNCHANGED <<index, disk>>

\* lines 34-39 and 66-78: the raw file is missing or does not lie
\* directly under transcripts/: nothing is moved
ReconByRawFile ==
  /\ rpc = "loop"
  /\ \E key \in todo, ok \in BOOLEAN :
       /\ index[key].tpath = NONE
       /\ index[key].raw # NONE
       /\ ~(index[key].raw \in files /\ Movable(key, index[key].raw))
       /\ files' = Reconstructed(index[key].raw,
                                 SetDefault(index[key].conv, ConvBeside(index[key].raw)),
                                 files, ok)
       /\ ReconNextItem(key)
  /\ UNCHANGED <<index, disk>>

\* lines 59-61 and 66-78: the entry has a legacy transcript_file
ReconByTranscriptFile ==
  /\ rpc = "loop"
  /\ \E key \in todo, ok \in BOOLEAN :
       /\ index[key].tpath = NONE
       /\ index[key].raw = NONE
       /\ index[key].transcript_file # NONE
       /\ files' = Reconstructed(index[key].transcript_file,
                                 ConvBeside(index[key].transcript_file), files, ok)
       /\ ReconNextItem(key)
  /\ UNCHANGED <<index, disk>>

\* lines 62-64: no transcript information: continue
ReconNoInfo ==
  /\ rpc = "loop"
  /\ \E key \in todo :
       /\ index[key].tpath = NONE
       /\ index[key].raw = NONE
       /\ index[key].transcript_file = NONE
       /\ ReconNextItem(key)
  /\ UNCHANGED <<index, disk, files>>

\* lines 27 and 80: the items are exhausted, "Done"
ReconDone ==
  /\ rpc = "loop"
  /\ todo = {}
  /\ rpc' = "done"
  /\ UNCHANGED <<orchestrator, disk, readable, files, index, disk0, files0, todo,
                 transcript, segments>>

NextRecon ==
  \/ ReconNoIndex
  \/ ReconLoad
  \/ ReconByPath
  \/ ReconMove
  \/ ReconMoveFails
  \/ ReconByRawFile
  \/ ReconByTranscriptFile
  \/ ReconNoInfo
  \/ ReconDone

SpecRecon == InitRecon /\ [][NextRecon]_vars

---------------------------------------------------------------------------
(* scripts/reconstruct_diarization.py: the assembly of the segments of    *)
(* one transcript, lines 25-68 and 86-91                                   *)

\* an utterance or a word of the transcript; speaker is NONE when the
\* entry has no (or an empty) speaker; there is no speaker_label key
Entries ==
  [speaker : {"A", "B", NONE}, text : {"x", "y"}, start : {1, 3, 5}, end : {6}]

\* obj["raw"] of a transcript read: utterances together with words (here
\* the same entries), or words alone
Raw(entries, wordsOnly) ==
  [utterances |-> IF wordsOnly THEN <<>> ELSE entries, words |-> entries]

InitSegments ==
  /\ \E w \in {World(EmptyIndex, FALSE, {})} :
       /\ disk = w.disk
       /\ readable = w.readable
       /\ files = w.files
       /\ disk0 = w.disk
       /\ files0 = w.files
  /\ cfg = Cfg(2, 2, 2, 0, 5, <<3, 2>>, 10, 2)
  /\ urls = <<UA>>
  /\ outcome = <<"none">>
  /\ OrchestratorIdle("done")
  /\ rpc = "read"
  /\ todo = {}
  /\ \E n \in 0..MaxEntries : \E l \in [1..n -> Entries], wordsOnly \in BOOLEAN :
       transcript = Raw(l, wordsOnly)
  /\ segments = <<>>

\* e.get('speaker') or e.get('speaker_label') or 'UNKNOWN', lines 33, 50
Label(e) == IF e.speaker # NONE THEN e.speaker ELSE "UNKNOWN"

\* an insertion that puts e before the entries that start when it does
InsertBeforeEqual(e, s) ==
  LET n == Cardinality({i \in 1..Len(s) : s[i].start < e.start})
  IN SubSeq(s, 1, n) \o <<e>> \o SubSeq(s, n + 1, Len(s))

\* e is put into the sorted list s behind every entry that does not start
\* later: sorted() is stable
InsertByStart(e, s) ==
  LET n == Cardinality({i \in 1..Len(s) : s[i].start <= e.start})
  IN SubSeq(s, 1, n) \o <<e>> \o SubSeq(s, n + 1, Len(s))

\* sorted(entries, key=lambda u: u.get('start', 0)), lines 30 and 49
RECURSIVE sorted(_)
sorted(s) ==
  IF s = <<>> THEN <<>>
  ELSE InsertByStart(s[Len(s)], sorted(SubSeq(s, 1, Len(s) - 1)))

\* lines 25-36
build_segments_from_utterances(raw) ==
  LET utts_sorted == sorted(raw.utterances)
  IN [i \in 1..Len(utts_sorted) |->
        [speaker |-> Label(utts_sorted[i]), text |-> utts_sorted[i].text,
         start |-> utts_sorted[i].start, end |-> utts_sorted[i].end]]

\* ' '.join(cur_words)
RECURSIVE Join(_)
Join(l) ==
  IF l = <<>> THEN ""
  ELSE IF Len(l) = 1 THEN l[1]
  ELSE l[1] \o " " \o Join(Tail(l))

\* lines 60 and 67: the segment closed from the cur_ variables
Closed(st) ==
  [speaker |-> st.cur_speaker, text |-> Join(st.cur_words),
   start |-> st.cur_start, end |-> st.cur_end]

\* the word is taken into the open segment whatever its speaker
SameSpeakerAlways(sp, cur_speaker) == TRUE

\* line 56: elif sp == cur_speaker
SameSpeaker(sp, cur_speaker) == sp = cur_speaker

\* lines 50-64: the body of the loop over the sorted words
WordStep(st, w) ==
  LET sp == Label(w)
      opened == [st EXCEPT !.cur_speaker = sp, !.cur_words = <<w.text>>,
                           !.cur_start = w.start, !.cur_end = w.end]
  IN IF st.cur_speaker = NONE THEN opened
     ELSE IF SameSpeaker(sp, st.cur_speaker)
     THEN [st EXCEPT !.cur_words = Append(@, w.text), !.cur_end = w.end]
     ELSE [opened EXCEPT !.segments = Append(st.segments, Closed(st))]

\* lines 44-64: the loop, from the state of lines 44-48
RECURSIVE WordLoop(_)
WordLoop(ws) ==
  IF ws = <<>>
  THEN [segments |-> <<>>, cur_speaker |-> NONE, cur_words |-> <<>>,
        cur_start |-> NONE, cur_end |-> NONE]
  ELSE WordStep(WordLoop(SubSeq(ws, 1, Len(ws) - 1)), ws[Len(ws)])

\* lines 39-68
build_segments_from_words(raw) ==
  LET st == WordLoop(sorted(raw.words))
  IN IF st.cur_speaker # NONE THEN Append(st.segments, Closed(st)) ELSE st.segments

\* line 89: segments = build_segments_from_utterances(raw)
FromUtterances ==
  /\ rpc = "read"
  /\ segments' = build_segments_from_utterances(transcript)
  /\ rpc' = "utterances"
  /\ UNCHANGED <<orchestrator, disk, readable, files, index, disk0, files0, todo, transcript>>

\* lines 90-91: no segment came of the utterances: the words are grouped
FromWords ==
  /\ rpc = "utterances"
  /\ segments = <<>>
  /\ segments' = build_segments_from_words(transcript)
  /\ rpc' = "assembled"
  /\ UNCHANGED <<orchestrator, disk, readable, files, index, disk0, files0, todo, transcript>>

\* line 90: the segments of the utterances are kept
KeepUtterances ==
  /\ rpc = "utterances"
  /\ segments # <<>>
  /\ rpc' = "assembled"
  /\ UNCHANGED <<orchestrator, disk, readable, files, index, disk0, files0, todo, transcript,
                 segments>>

\* the speaker labels of the transcripts whose labels are normalized
LabelSet ==
  {"A", "B", "UNKNOWN", "Host", "Speaker",
   "Speaker 0", "Speaker 1", "Speaker 11", "speaker 2", "SPEAKER 3",
   "Speaker12", "Speaker 26", "Speaker x", "Speaker x1", "Speaker 1 2",
   " A "}

\* the characters of a label (a Python str is a sequence of characters)
Spell(lab) ==
  CASE lab = "A" -> <<"A">>
    [] lab = "B" -> <<"B">>
    [] lab = "UNKNOWN" -> <<"U", "N", "K", "N", "O", "W", "N">>
    [] lab = "Host" -> <<"H", "o", "s", "t">>
    [] lab = "Speaker" -> <<"S", "p", "e", "a", "k", "e", "r">>
    [] lab = "Speaker 0" -> <<"S", "p", "e", "a", "k", "e", "r", " ", "0">>
    [] lab = "Speaker 1" -> <<"S", "p", "e", "a", "k", "e", "r", " ", "1">>
    [] lab = "Speaker 11" -> <<"S", "p", "e", "a", "k", "e", "r", " ", "1", "1">>
    [] lab = "speaker 2" -> <<"s", "p", "e", "a", "k", "e", "r", " ", "2">>
    [] lab = "SPEAKER 3" -> <<"S", "P", "E", "A", "K", "E", "R", " ", "3">>
    [] lab = "Speaker12" -> <<"S", "p", "e", "a", "k", "e", "r", "1", "2">>
    [] lab = "Speaker 26" -> <<"S", "p", "e", "a", "k", "e", "r", " ", "2", "6">>
    [] lab = "Speaker x" -> <<"S", "p", "e", "a", "k", "e", "r", " ", "x">>
    [] lab = "Speaker x1" -> <<"S", "p", "e", "a", "k", "e", "r", " ", "x", "1">>
    [] lab = "Speaker 1 2" -> <<"S", "p", "e", "a", "k", "e", "r", " ", "1", " ", "2">>
    [] lab = " A " -> <<" ", "A", " ">>

\* "".join(chars)
RECURSIVE Unspell(_)
Unspell(cs) == IF cs = <<>> THEN "" ELSE Head(cs) \o Unspell(Tail(cs))

UpperCase ==
  <<"A", "B", "C", "D", "E", "F", "G", "H", "I", "J", "K", "L", "M",
    "N", "O", "P", "Q", "R", "S", "T", "U", "V", "W", "X", "Y", "Z">>
LowerCase ==
  <<"a", "b", "c", "d", "e", "f", "g", "h", "i", "j", "k", "l", "m",
    "n", "o", "p", "q", "r", "s", "t", "u", "v", "w", "x", "y", "z">>
Digits == <<"0", "1", "2", "3", "4", "5", "6", "7", "8", "9">>

\* chr(ord('A') + n) for the n the labels give (n <= 30): the characters
\* from "A" (65) to "_" (95)
CharsFromA ==
  UpperCase \o <<"[", "\\", "]", "^", "_">>

\* str.lower() of one character
LowerChar(c) ==
  IF \E i \in 1..26 : UpperCase[i] = c
  THEN LowerCase[CHOOSE i \in 1..26 : UpperCase[i] = c]
  ELSE c

\* ch.isdigit()
IsDigit(c) == \E i \in 1..10 : Digits[i] = c

DigitValue(c) == (CHOOSE i \in 1..10 : Digits[i] = c) - 1

\* lab.strip(): the blanks at both ends are dropped
RECURSIVE StripChars(_)
StripChars(cs) ==
  IF cs = <<>> THEN cs
  ELSE IF Head(cs) = " " THEN StripChars(Tail(cs))
  ELSE IF cs[Len(cs)] = " " THEN StripChars(SubSeq(cs, 1, Len(cs) - 1))
  ELSE cs

\* lab.lower().startswith('speaker')
StartsWithSpeaker(cs) ==
  /\ Len(cs) >= 7
  /\ [i \in 1..7 |-> LowerChar(cs[i])] = <<"s", "p", "e", "a", "k", "e", "r">>

\* ''.join(ch for ch in lab if ch.isdigit()), line 101
DigitsOf(cs) == SelectSeq(cs, IsDigit)

\* int(digits) of a non-empty string of digits
RECURSIVE IntOf(_)
IntOf(ds) ==
  IF ds = <<>> THEN 0 ELSE 10 * IntOf(SubSeq(ds, 1, Len(ds) - 1)) + DigitValue(ds[Len(ds)])

\* normalize_label, lines 95-109, for a str: int('') raises ValueError,
\* which line 104 catches
normalize_label(lab) ==
  LET stripped == StripChars(Spell(lab))
      digits == DigitsOf(stripped)
  IN IF StartsWithSpeaker(stripped)
     THEN IF digits = <<>> THEN Unspell(stripped)
          ELSE CharsFromA[IntOf(digits) + 1]
     ELSE Unspell(stripped)

\* the texts with blanks at their ends that the transcripts hold
PaddedText == " x "

\* s['text'].strip(), line 113: of the texts of the transcripts only
\* PaddedText has blanks at its ends
StripText(t) == IF t = PaddedText THEN "x" ELSE t

\* lines 111-125: the label of every segment is normalized and its text
\* stripped, and the segments are given out in their order
Normalize ==
  /\ rpc = "assembled"
  /\ segments' = [i \in 1..Len(segments) |->
                    [segments[i] EXCEPT !.speaker = normalize_label(@),
                                        !.text = StripText(@)]]
  /\ rpc' = "normalized"
  /\ UNCHANGED <<orchestrator, disk, readable, files, index, disk0, files0, todo, transcript>>

NextSegments ==
  \/ FromUtterances
  \/ FromWords
  \/ KeepUtterances
  \/ Normalize

SpecSegments == InitSegments /\ [][NextSegments]_vars

\* one run over a transcript of a single utterance or word whose speaker
\* is one of the labels
InitLabels ==
  /\ \E w \in {World(EmptyIndex, FALSE, {})} :
       /\ disk = w.disk
       /\ readable = w.readable
       /\ files = w.files
       /\ disk0 = w.disk
       /\ files0 = w.files
  /\ cfg = Cfg(2, 2, 2, 0, 5, <<3, 2>>, 10, 2)
  /\ urls = <<UA>>
  /\ outcome = <<"none">>
  /\ OrchestratorIdle("done")
  /\ rpc = "read"
  /\ todo = {}
  /\ \E lab \in LabelSet, t \in {"x", PaddedText}, wordsOnly \in BOOLEAN :
       transcript = Raw(<<[speaker |-> lab, text |-> t, start |-> 1, end |-> 6]>>, wordsOnly)
  /\ segments = <<>>

SpecLabels == InitLabels /\ [][NextSegments]_vars

---------------------------------------------------------------------------
(* Vocabulary of the properties *)

Jobs == 1..Len(urls)

\* the jobs whose URL yields a key
Keyed == {j \in Jobs : ~get_video_id_raises(urls[j])}

\* the record of job j in the index document the run started from
Rec0(j) == disk0[TempKey(urls[j])]

\* job j was completed before the run and its raw transcript is on disk
CompletedWithRaw0(j) ==
  /\ Rec0(j).present
  /\ Rec0(j).status = "completed"
  /\ Rec0(j).raw # NONE
  /\ Rec0(j).raw \in files0

\* job j was completed before the run and its raw transcript is gone
CompletedRawMissing0(j) ==
  /\ Rec0(j).present
  /\ Rec0(j).status = "completed"
  /\ Rec0(j).raw # NONE
  /\ Rec0(j).raw \notin files0

Attempted == acquired \cup submitted

StageFailures == {"audio-download-failed", "transcript-failed"}

\* the key of the job in progress
JobKey == TempKey(urls[idx])

---------------------------------------------------------------------------
(* C1 *)

\* C1: a job whose record is completed and whose raw transcript file
\* exists when the run starts gets no download_audio call and no
\* transcribe_with_assemblyai call in the run, whatever its key.
C1_NoCallForCompleted ==
  \A j \in Keyed : CompletedWithRaw0(j) => j \notin Attempted

---------------------------------------------------------------------------
(* C2 *)

\* C2: a job whose record is completed when the run starts and whose raw
\* transcript file is gone is not skipped by the run.
C2_MissingFileNotSkipped ==
  \A j \in Keyed : CompletedRawMissing0(j) => outcome[j] # "skipped"

---------------------------------------------------------------------------
(* C3 *)

\* C3: while download_audio is in progress the last snapshot of the index
\* holds the job's record with status downloading; after it, the record
\* with status downloaded and the audio path; while
\* transcribe_with_assemblyai is in progress, the record with status
\* uploading.
C3_SnapshotShowsStep ==
  /\ pc = "download" =>
       disk[JobKey].present /\ disk[JobKey].status = "downloading"
  /\ pc = "downloaded" =>
       /\ disk[JobKey].present
       /\ disk[JobKey].status = "downloaded"
       /\ disk[JobKey].audio_file # NONE
  /\ pc \in {"upload", "create", "poll"} =>
       disk[JobKey].present /\ disk[JobKey].status = "uploading"

---------------------------------------------------------------------------
(* C4 *)

\* C4: a stage failure of a job never stops the loop: when the run has
\* ended, a job of the list was left unvisited only because the cap was
\* reached, never because an earlier job failed.
C4_FailureDoesNotStopLoop ==
  pc = "done" =>
    \A j \in Jobs : outcome[j] = "none" => (MAX_VIDEOS # 0 /\ processed >= MAX_VIDEOS)

\* a job failed and a later job of the same run completed
C4_Witness ==
  /\ pc = "done"
  /\ \E i, j \in Jobs : i < j /\ outcome[i] \in StageFailures /\ outcome[j] = "completed"

---------------------------------------------------------------------------
(* C5 *)

\* the statuses of the specified state machine
DefinedStatuses ==
  {"downloading", "downloaded", "uploading", "polling", "completed",
   "audio-download-failed", "transcript-failed"}

\* every status held by the snapshot, by `index` and by `entry`
AllStatuses ==
  {disk[k].status : k \in Keys} \cup {index[k].status : k \in Keys} \cup {entry.status}

---------------------------------------------------------------------------
(* C6 *)

\* the status of the record of the job in progress
StatusBefore == IF pc = "loop" THEN index[JobKey].status ELSE entry.status

\* the edges into the five states the claim names
Edge(b, a) ==
  /\ a = "downloaded" => b = "downloading"
  /\ a = "uploading" => b = "downloaded"
  /\ a = "completed" => b \in {"uploading", "polling"}
  /\ a = "audio-download-failed" => b = "downloading"
  /\ a = "transcript-failed" => b \in {"uploading", "polling"}

\* C6: every change of the status of the record of the job in progress
\* follows an edge of the state machine, also when an existing audio file
\* is reused.
C6_StatusFollowsEdges ==
  [][ (pc \notin {"load", "scan", "done"} /\ idx \in Keyed) =>
        LET after == IF idx' = idx THEN entry'.status ELSE index'[JobKey].status
        IN after # StatusBefore => Edge(StatusBefore, after) ]_vars

---------------------------------------------------------------------------
(* C7 *)

\* C7: with a cap MAX_VIDEOS > 0 a run attempts acquisition or submission
\* for at most MAX_VIDEOS jobs.
C7_AttemptsWithinCap ==
  MAX_VIDEOS > 0 => Cardinality(Attempted) <= MAX_VIDEOS

---------------------------------------------------------------------------
(* C8 *)

\* C8: a step that skips a completed job leaves `processed` unchanged.
C8_SkipLeavesCounter ==
  [][ (pc = "loop" /\ idx \in Jobs /\ outcome'[idx] = "skipped" /\ outcome[idx] = "none")
        => processed' = processed ]_vars

---------------------------------------------------------------------------
(* C9 *)

RetryLoop == {"download", "upload", "create"}
RetryDone == {"download_done", "upload_done", "create_done"}
Exhausted == {"download failed", "upload failed", "create transcript failed"}

\* the attempt count N of the retry loop in progress
RetryCount == IF pc \in {"download", "download_done"} THEN DOWNLOAD_RETRIES ELSE UPLOAD_RETRIES

\* B, 2B, 4B, ...: the n first delays
Doubling(n) == [k \in 1..n |-> RETRY_BACKOFF * 2^(k - 1)]

\* C9: in each retry loop every failure that leaves attempts is followed
\* by one sleep, the k-th by B * 2^(k-1); when every attempt failed, the
\* operation was invoked N times, the sleeps were B, 2B, ... (N - 1 of
\* them, none after the N-th failure), and the failure is raised to the
\* caller.
C9_RetryTiming ==
  /\ pc \in RetryLoop =>
       /\ sleeps = Doubling(Len(sleeps))
       /\ Len(sleeps) = fails
       /\ calls = fails
  /\ (pc \in RetryDone /\ calls >= 1 /\ fails = calls) =>
       /\ calls = RetryCount
       /\ sleeps = Doubling(RetryCount - 1)
       /\ exc \in Exhausted
       /\ ret = NONE

\* the create-transcript loop gave up after three failures and two sleeps
C9_Witness ==
  /\ pc = "create_done"
  /\ exc = "create transcript failed"
  /\ calls = 3
  /\ sleeps = <<RETRY_BACKOFF, 2 * RETRY_BACKOFF>>

---------------------------------------------------------------------------
(* C10 *)

\* fractions <<n, d>> with d > 0
FracLeq(x, y) == x[1] * y[2] <= y[1] * x[2]
FracEq(x, y) == x[1] * y[2] = y[1] * x[2]

\* I * F^k and M as fractions
Grown(k) == <<POLL_INTERVAL * BACKOFF_NUM^k, BACKOFF_DEN^k>>
Cap == <<MAX_BACKOFF, 1>>

\* C10: the k-th inter-poll sleep is min(I * F^k, M); no sleep exceeds M;
\* with F >= 1 the sleeps are non-decreasing.
C10_PollBackoff ==
  /\ \A k \in 1..Len(pollSleeps) :
       /\ FracEq(pollSleeps[k], IF FracLeq(Grown(k), Cap) THEN Grown(k) ELSE Cap)
       /\ FracLeq(pollSleeps[k], Cap)
  /\ BACKOFF_NUM >= BACKOFF_DEN =>
       \A k \in 1..(Len(pollSleeps) - 1) : FracLeq(pollSleeps[k], pollSleeps[k + 1])
  /\ pc = "poll" => Len(pollSleeps) = attempt

\* two sleeps were taken, the first below the cap and the second capped
C10_Witness ==
  /\ pc = "poll"
  /\ Len(pollSleeps) >= 2
  /\ ~FracEq(pollSleeps[1], Cap)
  /\ FracEq(pollSleeps[2], Cap)
  /\ BACKOFF_NUM > BACKOFF_DEN

---------------------------------------------------------------------------
(* C11 *)

TimeoutText == "Max polling attempts exceeded"
RemoteFailedText == "Transcription failed"

\* C11: the poll loop issues at most MAX_POLL_TRIES status queries.  While
\* it runs, every query so far reported a non-terminal status (`attempt`
\* counts those).  It returns at the first query reporting completed and
\* raises at the first reporting failed, that query being the last one;
\* it raises the timeout error exactly when MAX_POLL_TRIES queries all
\* reported a non-terminal status.
C11_PollCount ==
  /\ pc = "poll" =>
       /\ calls = attempt
       /\ calls <= MAX_POLL_TRIES
       /\ ret = NONE /\ exc = NONE
  /\ pc = "poll_done" =>
       /\ calls <= MAX_POLL_TRIES
       /\ ret # NONE => ret = "completed" /\ calls = attempt + 1
       /\ exc = RemoteFailedText => ret = NONE /\ calls = attempt + 1
       /\ exc = TimeoutText => ret = NONE /\ calls = attempt
       /\ calls = attempt => exc = TimeoutText /\ calls = MAX_POLL_TRIES

\* the timeout was raised after two or more queries, all non-terminal
C11_Witness ==
  /\ pc = "poll_done"
  /\ exc = TimeoutText
  /\ calls >= 2
  /\ calls = MAX_POLL_TRIES

---------------------------------------------------------------------------
(* C12 *)

\* C12: the error raised when the poll count is exceeded is of another
\* kind than the error raised when the remote status is failed.
C12_TimeoutKindDistinct ==
  (pc = "poll_done" /\ exc = TimeoutText) => ExcKind(exc) # ExcKind(RemoteFailedText)

---------------------------------------------------------------------------
(* C13 *)

\* C13: the step that records a stage failure of a job persists the
\* record with the matching failed status and with last_error equal to
\* the text of that failure, whatever the record held before.
C13_LastErrorIsFailure ==
  [][ (idx \in Jobs /\ outcome[idx] = "none" /\ outcome'[idx] \in StageFailures) =>
        /\ disk'[JobKey].present
        /\ disk'[JobKey].status = outcome'[idx]
        /\ disk'[JobKey].last_error = exc ]_vars

---------------------------------------------------------------------------
(* C14 *)

ScannedFields ==
  {"status", "audio_file", "transcript_file", "raw", "conv", "tpath", "last_error"}

\* C14: the scan of transcripts/ changes no field that is present in a
\* record of the loaded index, the status included.
C14_ScanKeepsFields ==
  [][ pc = "scan" =>
        \A k \in Keys : \A f \in ScannedFields :
          index[k][f] # NONE => index'[k][f] = index[k][f] ]_vars

---------------------------------------------------------------------------
(* C15 *)

\* job j is the first of the list with its key
FirstOfKey(j) ==
  \A i \in 1..(j - 1) : get_video_id_raises(urls[i]) \/ TempKey(urls[i]) # TempKey(urls[j])

\* the record of job j says a stage failed when the run starts
Failed0(j) == Rec0(j).present /\ Rec0(j).status \in StageFailures

\* the loop has taken job j beyond the head of its iteration
Taken(j) == idx > j \/ (idx = j /\ pc \notin {"load", "scan", "loop", "done"})

---------------------------------------------------------------------------
(* C16 *)

\* the record of the job at the head of the loop holds an audio path and
\* the file exists
AudioOnDisk == index[JobKey].audio_file # NONE /\ index[JobKey].audio_file \in files

\* C16: download_audio is called only at the head of an iteration and
\* only when no audio path is recorded or the recorded file is missing;
\* when the recorded file exists the job goes to
\* transcribe_with_assemblyai with the recorded path, without a
\* download_audio call.
C16_AudioReuse ==
  [][ /\ acquired' # acquired => pc = "loop"
      /\ (pc = "loop" /\ idx \in Keyed /\ (acquired' # acquired \/ submitted' # submitted)) =>
           IF AudioOnDisk
           THEN /\ acquired' = acquired
                /\ idx \in submitted'
                /\ audio' = index[JobKey].audio_file
           ELSE /\ idx \in acquired'
                /\ submitted' = submitted ]_vars

\* a job was submitted with the audio recorded by an earlier run, and no
\* download_audio call was made for it
C16_Witness ==
  /\ pc = "upload"
  /\ idx \notin acquired
  /\ idx \in submitted
  /\ audio = Rec0(idx).audio_file
  /\ audio \in files0

---------------------------------------------------------------------------
(* C17 *)

\* C17: a run of the reconstruction batch leaves the index document as it
\* found it.
C17_BatchLeavesIndex == rpc \in {"start", "loop", "done", "exit"} => disk = disk0

---------------------------------------------------------------------------
(* C18 *)

\* C18: every run of the orchestrator reaches its end, whatever the list
\* and whatever the collaborator calls return or raise.
C18_RunEnds == <>(pc = "done")

\* a run ended in which one job failed in acquisition and another in
\* transcription
C18_Witness ==
  /\ pc = "done"
  /\ \E j \in Jobs : outcome[j] = "transcript-failed"
  /\ \E j \in Jobs : outcome[j] = "audio-download-failed"

---------------------------------------------------------------------------
(* C19 *)

\* the entries of s that start at v, in the order of s
StartingAt(s, v) ==
  LET AtV(e) == e.start = v
  IN SelectSeq(s, AtV)

Starts == {e.start : e \in Entries}

\* out holds the entries of s in ascending order of start, those of equal
\* start in the order they have in s
StableSorted(out, s) ==
  /\ Len(out) = Len(s)
  /\ \A i \in 1..(Len(out) - 1) : out[i].start <= out[i + 1].start
  /\ \A v \in Starts : StartingAt(out, v) = StartingAt(s, v)

\* the entries s with the speaker each of them gives its segment
WithLabels(s) == [i \in 1..Len(s) |-> [s[i] EXCEPT !.speaker = Label(s[i])]]

\* C19: for a non-empty list of utterances build_segments_from_utterances
\* returns one segment per utterance, in ascending order of start, the
\* utterances of equal start in their input order, each segment with the
\* speaker, text, start and end of its utterance (the speaker UNKNOWN
\* for an utterance that has none).
C19_UtteranceOrder ==
  (rpc = "utterances" /\ transcript.utterances # <<>>) =>
    /\ Len(segments) = Len(transcript.utterances)
    /\ StableSorted(segments, WithLabels(transcript.utterances))

\* three utterances given out of order, two of them starting together
C19_Witness ==
  /\ rpc = "utterances"
  /\ Len(segments) = 3
  /\ transcript.utterances[1].start > transcript.utterances[2].start
  /\ transcript.utterances[1].start = transcript.utterances[3].start
  /\ transcript.utterances[1].text # transcript.utterances[3].text
  /\ segments[2].text = transcript.utterances[1].text
  /\ segments[3].text = transcript.utterances[3].text

---------------------------------------------------------------------------
(* C20 *)

\* the texts of the entries lo..hi of s with one space between two
RECURSIVE TextOf(_, _, _)
TextOf(s, lo, hi) ==
  IF lo = hi THEN s[lo].text ELSE TextOf(s, lo, hi - 1) \o " " \o s[hi].text

\* segs are the runs of s cut behind the positions of cuts: the i-th
\* segment is the stretch of s that ends at the i-th cut, has the one
\* label of its words, their texts, the start of its first word and the
\* end of its last
CutInto(segs, s, cuts) ==
  /\ Cardinality(cuts) = Len(segs)
  /\ s # <<>> => Len(s) \in cuts
  /\ \A c \in cuts :
       LET i == Cardinality({d \in cuts : d <= c})
           lo == 1 + Cardinality({k \in 1..Len(s) : \E d \in cuts : d < c /\ k <= d})
       IN /\ \A k \in lo..c : Label(s[k]) = segs[i].speaker
          /\ segs[i].text = TextOf(s, lo, c)
          /\ segs[i].start = s[lo].start
          /\ segs[i].end = s[c].end

\* C20: build_segments_from_words returns the maximal runs of consecutive
\* words of one speaker label, the words taken in ascending order of
\* start (stable): every word lies in exactly one segment; a segment has
\* the texts of its words joined by single spaces, the start of its first
\* word and the end of its last; two adjacent segments differ in their
\* label; no word gives no segment.
C20_WordRuns ==
  (rpc = "assembled" /\ transcript.utterances = <<>>) =>
    LET ordered == sorted(transcript.words)
    IN /\ StableSorted(ordered, transcript.words)
       /\ \E cuts \in SUBSET (1..Len(ordered)) : CutInto(segments, ordered, cuts)
       /\ \A i \in 1..(Len(segments) - 1) : segments[i].speaker # segments[i + 1].speaker
       /\ transcript.words = <<>> => segments = <<>>

\* three words given out of order make a run of two words and a run of one
C20_Witness ==
  /\ rpc = "assembled"
  /\ transcript.utterances = <<>>
  /\ Len(transcript.words) = 3
  /\ transcript.words[1].start > transcript.words[2].start
  /\ Len(segments) = 2
  /\ segments[1].text = "x y"
  /\ segments[2].speaker = "UNKNOWN"

---------------------------------------------------------------------------
(* C21 *)

\* the characters are the word speaker, in any letter case, followed by
\* blanks and then digits and nothing else
StartsWithSpeakerNumber(cs) ==
  /\ StartsWithSpeaker(cs)
  /\ \A i \in 8..Len(cs) : cs[i] = " " \/ IsDigit(cs[i])
  /\ \A i \in 8..Len(cs) : \A j \in i..Len(cs) : IsDigit(cs[i]) => IsDigit(cs[j])

\* the number n of a label made of `speaker` and a non-negative integer
SpeakerNumber(lab) == IntOf(DigitsOf(Spell(lab)))

\* a label made of the word speaker, in any letter case, followed by a
\* non-negative integer
IsSpeakerNumber(lab) ==
  /\ StartsWithSpeakerNumber(Spell(lab))
  /\ DigitsOf(Spell(lab)) # <<>>

\* C21: normalization turns a label `speaker n` with n < 26 into the
\* (n+1)-th uppercase letter and leaves every label that is not made of
\* speaker and a number as it is.
C21_LabelNormalized ==
  [][ (rpc = "assembled" /\ rpc' = "normalized") =>
        \A i \in 1..Len(segments) :
          LET lab == segments[i].speaker
          IN IF IsSpeakerNumber(lab)
             THEN SpeakerNumber(lab) < 26 => segments'[i].speaker = UpperCase[SpeakerNumber(lab) + 1]
             ELSE segments'[i].speaker = lab ]_vars

---------------------------------------------------------------------------
(* C22 *)

\* what one successful invocation of the operation of the loop in
\* progress gives back: the audio file found, the upload_url of the
\* response (None when the response has none), the transcript id
ResultOfAttempt ==
  IF pc = "download" THEN {AudioPath(url)}
  ELSE IF pc = "upload" THEN {"upload_url", NONE}
  ELSE {"tid"}

\* C22: in each retry loop, the invocation that first succeeds is the
\* k-th with k <= N, after k - 1 failures and k - 1 sleeps; the loop ends
\* on it with that invocation's result and without a failure raised, and
\* once it has ended no further invocation and no further sleep happens.
C22_StopsAtFirstSuccess ==
  [][ /\ (pc \in RetryLoop /\ calls' = calls + 1 /\ fails' = fails) =>
           /\ fails = calls
           /\ calls' <= RetryCount
           /\ attempt' = calls'
           /\ sleeps' = sleeps
           /\ Len(sleeps') = calls' - 1
           /\ pc' \in RetryDone
           /\ exc' = NONE
           /\ ret' \in ResultOfAttempt
      /\ (pc \in RetryDone /\ calls = fails + 1) =>
           /\ calls' \in {calls, 0}
           /\ sleeps' \in {sleeps, <<>>}
           /\ pc' \notin RetryLoop \/ calls' = 0 ]_vars

\* the upload succeeded at its third attempt, after two failures and two
\* sleeps
C22_Witness ==
  /\ pc = "upload_done"
  /\ exc = NONE
  /\ ret = "upload_url"
  /\ calls = 3
  /\ fails = 2
  /\ sleeps = <<RETRY_BACKOFF, 2 * RETRY_BACKOFF>>

---------------------------------------------------------------------------
(* C23 *)

\* the snapshot on disk shows the record of key k completed with the path
\* of the flat raw file of k, and that file is among fs
CompletedWithRaw(d, k, fs) ==
  d[k].status = "completed" => (d[k].raw = RawPath(k) /\ RawPath(k) \in fs)

\* C23: whenever, after the scan, a step of the run persists a snapshot
\* in which a record newly shows status completed, the raw transcript
\* file of that record was on disk before that step and the record holds
\* its path; and in every later state in which the snapshot still shows a
\* job completed by the run as completed, the record holds the path of
\* the raw file and the file exists.
C23_RawBeforeCompleted ==
  [][ /\ \A k \in Keys :
           (pc \notin {"load", "scan"} /\ disk'[k] # disk[k] /\ disk'[k].status = "completed") =>
             /\ RawPath(k) \in files
             /\ disk'[k].raw = RawPath(k)
             /\ disk'[k].present
      /\ \A j \in 1..Len(urls) :
           outcome'[j] = "completed" => CompletedWithRaw(disk', TempKey(urls[j]), files') ]_vars

\* the run transcribed a job whose record was not completed before: the
\* snapshot shows it completed, with the raw file the run wrote
C23_Witness ==
  /\ \E j \in 1..Len(urls) :
       LET k == TempKey(urls[j])
       IN /\ outcome[j] = "completed"
          /\ disk0[k].status # "completed"
          /\ disk[k].status = "completed"
          /\ disk[k].raw = RawPath(k)
          /\ RawPath(k) \in files \ files0

---------------------------------------------------------------------------
(* C24 *)

\* C24: a retry loop ends either by returning after a successful
\* invocation of its operation or by raising the failure of its last
\* invocation, whatever the attempt count N >= 0; and the orchestrator
\* sets an audio path and status downloaded on a record only after an
\* acquisition that succeeded, the path being that of the file fetched.
C24_ReturnsOnlyAfterSuccess ==
  [][ /\ (pc \in RetryLoop /\ pc' \in RetryDone) =>
           \/ exc' = NONE /\ calls' = fails' + 1
           \/ exc' # NONE /\ calls' = fails' /\ calls' >= 1
      /\ (pc = "download_done" /\ entry'.status = "downloaded") =>
           /\ calls = fails + 1
           /\ entry'.audio_file \in files ]_vars

====
